---- MODULE Spec2Model ----
(***************************************************************************)
(* Block construction pipeline of run_data_processing                      *)
(* (packages/data-prep/src/app/jobs/tasks.py): message normalisation and   *)
(* chat assembly, segmentation into raw blocks, merging of same-sender     *)
(* runs into turns, trimming/validation into Blocks, statistics, export.   *)
(*                                                                         *)
(* Text is abstracted to what the token counter sees.  A content is a      *)
(* sequence of physical lines; a line records whether it carries the       *)
(* delimiter prefix and the token weight of its text.  Timestamps are      *)
(* small naturals, None is NoTime.  Every raw chat of the model's inputs   *)
(* is a named personal chat and no date limit is configured, so the only   *)
(* messages the normaliser skips are those without sender or without text. *)
(* Message(...) and the system Message are taken to construct without a    *)
(* ValidationError (models.py is not part of the modelled source); Block   *)
(* construction may fail, as the try/except around it allows.              *)
(***************************************************************************)
EXTENDS Integers, Sequences, FiniteSets, TLC

\* ---------------------------------------------------------------- bounds
MaxChats == 2        \* raw chats per input file
MaxMsgs == 3         \* raw messages per input file, over all its chats
MaxTime == 2         \* timestamps are 0..MaxTime seconds
Threshold == 1       \* cfg.convo_block_thereshold_secs of the modelled runs
DelimTok == 1        \* tokens the delimiter prefix adds to a line
NewlineTok == 1      \* tokens a "\n" between two lines adds
SysTok == 1          \* tokens of the configured system prompt

\* ------------------------------------------------------ program constants
DefaultMin == 100
DefaultMax == 3000

NoTime == 0 - 1      \* None

Target == "me"       \* cfg.target_name
Other == "them"
Weights == {1, 100}  \* token weights of the message texts of the inputs
TokenCfgs == {<<2, 3>>, <<2, 5>>, <<5, 5>>, <<500, 100>>}  \* (min, max)_tokens_per_block

RECURSIVE SumSeq(_)
SumSeq(s) == IF s = <<>> THEN 0 ELSE Head(s) + SumSeq(Tail(s))

\* ------------------------------------------------------------- tokenizer
\* len(tokenizer.encode(content)): the lines' texts, a delimiter prefix per
\* prefixed line, and the newlines that join the lines.
LineTokens(line) == line.w + (IF line.pre THEN DelimTok ELSE 0)

TokenCount(content) ==
    SumSeq([i \in 1..Len(content) |-> LineTokens(content[i])])
    + (IF Len(content) > 0 THEN (Len(content) - 1) * NewlineTok ELSE 0)

Message(role, content, timestamp) ==
    [role |-> role, content |-> content, timestamp |-> timestamp]

\* ------------------------------------------------- 4) normaliser, assembler
\* A raw message needs a sender and text entities or a sticker (w = 0: none).
Skipped(raw) == raw.from = "" \/ raw.w = 0

RoleOf(sender) == IF sender = Target THEN "assistant" ELSE "user"

Normalize(raw) ==
    Message(RoleOf(raw.from), <<[pre |-> FALSE, w |-> raw.w]>>, raw.date)

RECURSIVE ParseMessages(_)
ParseMessages(raws) ==
    IF raws = <<>> THEN <<>>
    ELSE IF Skipped(Head(raws)) THEN ParseMessages(Tail(raws))
    ELSE <<Normalize(Head(raws))>> \o ParseMessages(Tail(raws))

\* list.sort(key=timestamp): stable, ascending.
RECURSIVE InsertSorted(_, _)
InsertSorted(sorted, m) ==
    IF sorted = <<>> THEN <<m>>
    ELSE IF sorted[Len(sorted)].timestamp <= m.timestamp THEN Append(sorted, m)
    ELSE Append(InsertSorted(SubSeq(sorted, 1, Len(sorted) - 1), m),
                sorted[Len(sorted)])

RECURSIVE StableSort(_)
StableSort(msgs) ==
    IF msgs = <<>> THEN <<>>
    ELSE InsertSorted(StableSort(SubSeq(msgs, 1, Len(msgs) - 1)), msgs[Len(msgs)])

SortUnsorted(msgs) == msgs

SortByTimestamp(msgs) == StableSort(msgs)

Chat(name, msgs) ==
    [contact_name |-> name, messages |-> msgs,
     raw_blocks |-> <<>>, valid_blocks |-> <<>>]

RECURSIVE BuildFrom(_, _)
BuildFrom(raws, i) ==
    IF i > Len(raws) THEN <<>>
    ELSE LET msgs == ParseMessages(raws[i])
         IN (IF msgs # <<>> THEN <<Chat(i, SortByTimestamp(msgs))>> ELSE <<>>)
            \o BuildFrom(raws, i + 1)

BuildChatObjects(raws) == BuildFrom(raws, 1)

\* ------------------------------------------------------------ 5) segmenter
SanityStrict(lo, hi) == IF lo > hi THEN <<DefaultMin, DefaultMax>> ELSE <<lo, hi>>

SanityCheck(lo, hi) == IF lo >= hi THEN <<DefaultMin, DefaultMax>> ELSE <<lo, hi>>

ContinueBlockStrictGap(prev, gap, cur, t, thr, hi) ==
    prev # NoTime /\ gap < thr /\ cur + t <= hi

ContinueBlockNoBudget(prev, gap, cur, t, thr, hi) ==
    prev # NoTime /\ gap <= thr

ContinueBlock(prev, gap, cur, t, thr, hi) ==
    prev # NoTime /\ gap <= thr /\ cur + t <= hi

StartTokensAccumulate(cur, t) == cur + t

\* current_tokens = msg_tokens, when a new block starts
StartTokens(cur, t) == t

\* A block as the segmenter closes it: its messages, the running token count
\* and what became of it.
Closed(st, verdict) ==
    [messages |-> st.cur, tokens |-> st.tokens, verdict |-> verdict]

\* Commit the existing block: keep it, or count it short or long.  closed
\* records every block committed, in order.
Commit(st, lo, hi) ==
    IF st.cur = <<>> THEN st
    ELSE IF lo <= st.tokens /\ st.tokens <= hi
         THEN [st EXCEPT !.kept = Append(@, st.cur),
                         !.closed = Append(@, Closed(st, "kept"))]
    ELSE IF st.tokens < lo
         THEN [st EXCEPT !.short = @ + 1,
                         !.closed = Append(@, Closed(st, "short"))]
    ELSE [st EXCEPT !.long = @ + 1,
                    !.closed = Append(@, Closed(st, "long"))]

SegStep(st, msg, thr, lo, hi) ==
    LET gap == IF st.prev # NoTime THEN msg.timestamp - st.prev ELSE NoTime
        t == TokenCount(msg.content)
    IN IF ContinueBlock(st.prev, gap, st.tokens, t, thr, hi)
       THEN [st EXCEPT !.cur = Append(@, msg), !.tokens = @ + t,
                       !.prev = msg.timestamp]
       ELSE [Commit(st, lo, hi) EXCEPT !.cur = <<msg>>,
                                       !.tokens = StartTokens(st.tokens, t),
                                       !.prev = msg.timestamp]

RECURSIVE SegLoopNoFinal(_, _, _, _, _)
SegLoopNoFinal(st, msgs, thr, lo, hi) ==
    IF msgs = <<>> THEN st
    ELSE SegLoopNoFinal(SegStep(st, Head(msgs), thr, lo, hi), Tail(msgs),
                        thr, lo, hi)

RECURSIVE SegLoop(_, _, _, _, _)
SegLoop(st, msgs, thr, lo, hi) ==
    IF msgs = <<>> THEN Commit(st, lo, hi)
    ELSE SegLoop(SegStep(st, Head(msgs), thr, lo, hi), Tail(msgs), thr, lo, hi)

\* One chat's pass: the kept raw blocks and the short/long counts it adds.
SegmentChat(msgs, thr, lo, hi) ==
    SegLoop([kept |-> <<>>, cur |-> <<>>, tokens |-> 0, prev |-> NoTime,
             short |-> 0, long |-> 0, closed |-> <<>>], msgs, thr, lo, hi)

\* --------------------------------------------------------------- 6) merger
PrefixedBare(msg) == [pre |-> FALSE, w |-> msg.content[1].w]

\* f"{delimiter} {msg.content.strip()}": the message's text as a prefixed line
Prefixed(msg) == [pre |-> TRUE, w |-> msg.content[1].w]

NeverSameSender(role, sender) == FALSE

\* msg.role == current_sender
SameSender(role, sender) == role = sender

RECURSIVE MergeLoop(_, _, _, _, _)
MergeLoop(rest, sender, ts, content, out) ==
    IF rest = <<>> THEN Append(out, Message(sender, content, ts))
    ELSE LET msg == Head(rest)
         IN IF SameSender(msg.role, sender)
            THEN MergeLoop(Tail(rest), sender, ts,
                           Append(content, Prefixed(msg)), out)
            ELSE MergeLoop(Tail(rest), msg.role, msg.timestamp,
                           <<Prefixed(msg)>>,
                           Append(out, Message(sender, content, ts)))

\* One raw block (never empty) to its merged turns.
MergeBlock(block) ==
    MergeLoop(Tail(block), block[1].role, block[1].timestamp,
              <<Prefixed(block[1])>>, <<>>)

MergeChat(chat) ==
    [chat EXCEPT !.raw_blocks =
        [b \in 1..Len(chat.raw_blocks) |-> MergeBlock(chat.raw_blocks[b])]]

\* ----------------------------------------------------------- 6b) validator
SystemMessage == Message("system", <<[pre |-> FALSE, w |-> SysTok]>>, NoTime)

KeepLeading(block) == block

\* while block and block[0].role == "assistant": block.pop(0)
RECURSIVE TrimLeading(_)
TrimLeading(block) ==
    IF block # <<>> /\ block[1].role = "assistant"
    THEN TrimLeading(Tail(block)) ELSE block

KeepTrailing(block) == block

\* while block and block[-1].role == "user": block.pop()
RECURSIVE TrimTrailing(_)
TrimTrailing(block) ==
    IF block # <<>> /\ block[Len(block)].role = "user"
    THEN TrimTrailing(SubSeq(block, 1, Len(block) - 1)) ELSE block

AppendSystem(block, sys) == Append(block, sys)

\* block.insert(0, system_message)
PrependSystem(block, sys) == <<sys>> \o block

MinMsgs(hasSystem) == IF hasSystem THEN 3 ELSE 2

TokenSum(block) ==
    SumSeq([i \in 1..Len(block) |-> TokenCount(block[i].content)])

TokenVerdictNoLong(count, lo, hi) == IF count < lo THEN "short" ELSE "ok"

TokenVerdict(count, lo, hi) ==
    IF count < lo THEN "short" ELSE IF count > hi THEN "long" ELSE "ok"

\* ---------------------------------------------------------------- 7) stats
SetMin(S) == CHOOSE x \in S : \A y \in S : x <= y
SetMax(S) == CHOOSE x \in S : \A y \in S : x >= y

\* calculate_chat_stats(chats, tokenizer): the metrics the caller reads
\* (averages and durations are left out); zero aggregates for no blocks.
CalculateChatStats(cs) ==
    LET counts == {TokenSum(cs[i].valid_blocks[b].messages) :
                     <<i, b>> \in {p \in (1..Len(cs)) \X (1..MaxMsgs) :
                                     p[2] <= Len(cs[p[1]].valid_blocks)}}
    IN [num_chats |-> Len(cs),
        num_blocks |-> SumSeq([i \in 1..Len(cs) |-> Len(cs[i].valid_blocks)]),
        min_tokens_per_block |-> IF counts = {} THEN 0 ELSE SetMin(counts),
        max_tokens_per_block |-> IF counts = {} THEN 0 ELSE SetMax(counts),
        block_breakdown |-> [n \in {cs[i].contact_name : i \in 1..Len(cs)} |->
            SumSeq([i \in 1..Len(cs) |->
                IF cs[i].contact_name = n THEN Len(cs[i].valid_blocks) ELSE 0])]]

\* --------------------------------------------------------------- 8) export
ChatRecord(chat) ==
    [contact_name |-> chat.contact_name,
     num_blocks |-> Len(chat.valid_blocks),
     blocks |-> chat.valid_blocks]

\* ------------------------------------------------------------------ inputs
RawMsgs ==
    [from : {Target, Other}, w : Weights, date : 0..MaxTime]
    \cup {[from |-> "", w |-> 1, date |-> 0]}

MsgSeqs(n) == UNION {[1..k -> RawMsgs] : k \in 0..n}

\* The lists of n raw chats holding at most budget raw messages together.
RECURSIVE ChatLists(_, _)
ChatLists(n, budget) ==
    IF n = 0 THEN {<<>>}
    ELSE UNION {{<<a>> \o rest : rest \in ChatLists(n - 1, budget - Len(a))} :
                  a \in MsgSeqs(budget)}

RawInputs == UNION {ChatLists(n, MaxMsgs) : n \in 1..MaxChats}

Configs == {[min |-> c[1], max |-> c[2], system_prompt |-> s] :
              c \in TokenCfgs, s \in BOOLEAN}

\* ------------------------------------------------------------------- state
VARIABLES
    pc,                      \* the section of run_data_processing to run next
    cfg,                     \* the resolved configuration
    raw_chats,               \* the raw chats loaded from the input file
    chats,                   \* the Chat objects
    min_tokens, max_tokens,  \* the thresholds after the sanity check
    num_short_blocks, num_long_blocks,               \* segmenter discards
    discarded_short_blocks, discarded_long_blocks,   \* validator discards
    discarded_blocks,        \* Unbound until line 493 first assigns it
    ci, bi,                  \* the validator's chat and block positions
    valid_blocks,            \* the validator's list for the current chat
    chat_stats,              \* the statistics the run returns
    chat_records, training_blocks,                    \* the exported records
    closed_blocks,           \* history: per assembled chat, its messages and
                             \* the blocks the segmenter closed
    failed_blocks            \* history: Block constructions that failed

vars == <<pc, cfg, raw_chats, chats, min_tokens, max_tokens, num_short_blocks,
          num_long_blocks, discarded_short_blocks, discarded_long_blocks,
          discarded_blocks, ci, bi, valid_blocks, chat_stats, chat_records,
          training_blocks, closed_blocks, failed_blocks>>

Unbound == 0 - 1
NoStats == [unset |-> TRUE]

Init ==
    /\ pc = "build"
    /\ cfg \in Configs
    /\ raw_chats \in RawInputs
    /\ chats = <<>>
    /\ min_tokens = Unbound /\ max_tokens = Unbound
    /\ num_short_blocks = 0 /\ num_long_blocks = 0
    /\ discarded_short_blocks = 0 /\ discarded_long_blocks = 0
    /\ discarded_blocks = Unbound
    /\ ci = 1 /\ bi = 1
    /\ valid_blocks = <<>>
    /\ chat_stats = NoStats
    /\ chat_records = <<>> /\ training_blocks = <<>>
    /\ closed_blocks = <<>>
    /\ failed_blocks = 0

\* 4) Build Chat objects (lines 203-280).
BuildChats ==
    /\ pc = "build"
    /\ chats' = BuildChatObjects(raw_chats)
    /\ pc' = "chunk"
    /\ UNCHANGED <<cfg, raw_chats, min_tokens, max_tokens, num_short_blocks,
                   num_long_blocks, discarded_short_blocks,
                   discarded_long_blocks, discarded_blocks, ci, bi,
                   valid_blocks, chat_stats, chat_records, training_blocks,
                   closed_blocks, failed_blocks>>

\* 5) Sanity check, chunking of every chat, chats without blocks dropped
\* (lines 290-356).
ChunkChats ==
    /\ pc = "chunk"
    /\ LET t == SanityCheck(cfg.min, cfg.max)
           seg == [i \in 1..Len(chats) |->
                     SegmentChat(chats[i].messages, Threshold, t[1], t[2])]
           chunked == [i \in 1..Len(chats) |->
                         [chats[i] EXCEPT !.raw_blocks = seg[i].kept]]
       IN /\ min_tokens' = t[1]
          /\ max_tokens' = t[2]
          /\ num_short_blocks' = SumSeq([i \in 1..Len(chats) |-> seg[i].short])
          /\ num_long_blocks' = SumSeq([i \in 1..Len(chats) |-> seg[i].long])
          /\ chats' = SelectSeq(chunked, LAMBDA c : c.raw_blocks # <<>>)
          /\ closed_blocks' = [i \in 1..Len(chats) |->
                                 [contact_name |-> chats[i].contact_name,
                                  messages |-> chats[i].messages,
                                  closed |-> seg[i].closed]]
    /\ pc' = "merge"
    /\ UNCHANGED <<cfg, raw_chats, discarded_short_blocks,
                   discarded_long_blocks, discarded_blocks, ci, bi,
                   valid_blocks, chat_stats, chat_records, training_blocks,
                   failed_blocks>>

\* 6) Merge consecutive messages by sender within each block (lines 376-435).
MergeChats ==
    /\ pc = "merge"
    /\ chats' = [i \in 1..Len(chats) |-> MergeChat(chats[i])]
    /\ pc' = "validate"
    /\ UNCHANGED <<cfg, raw_chats, min_tokens, max_tokens, num_short_blocks,
                   num_long_blocks, discarded_short_blocks,
                   discarded_long_blocks, discarded_blocks, ci, bi,
                   valid_blocks, chat_stats, chat_records, training_blocks,
                   closed_blocks, failed_blocks>>

\* 6b) One iteration of the loop over chat.raw_blocks (lines 463-506).  The
\* block is trimmed and given its system message in place; built says
\* whether Block(messages=block) constructs.
ValidateBlock(built) ==
    /\ pc = "validate"
    /\ ci <= Len(chats)
    /\ bi <= Len(chats[ci].raw_blocks)
    /\  LET block0 == chats[ci].raw_blocks[bi]
            trimmed == TrimTrailing(TrimLeading(block0))
            block == IF cfg.system_prompt
                     THEN PrependSystem(trimmed, SystemMessage) ELSE trimmed
            verdict == TokenVerdict(TokenSum(block), min_tokens, max_tokens)
        IN IF block0 = <<>>
           THEN UNCHANGED <<chats, discarded_short_blocks,
                            discarded_long_blocks, discarded_blocks,
                            valid_blocks, failed_blocks>>
           ELSE /\ chats' = [chats EXCEPT ![ci].raw_blocks[bi] = block]
                /\ IF Len(block) < MinMsgs(cfg.system_prompt) \/ verdict = "short"
                   THEN /\ discarded_short_blocks' = discarded_short_blocks + 1
                        /\ UNCHANGED <<discarded_long_blocks, discarded_blocks,
                                       valid_blocks, failed_blocks>>
                   ELSE IF verdict = "long"
                   THEN /\ discarded_long_blocks' = discarded_long_blocks + 1
                        /\ UNCHANGED <<discarded_short_blocks, discarded_blocks,
                                       valid_blocks, failed_blocks>>
                   ELSE /\ discarded_blocks' =
                              discarded_short_blocks + discarded_long_blocks
                              + (IF built THEN 0 ELSE 1)
                        /\ valid_blocks' =
                              IF built
                              THEN Append(valid_blocks, [messages |-> block])
                              ELSE valid_blocks
                        /\ failed_blocks' =
                              failed_blocks + (IF built THEN 0 ELSE 1)
                        /\ UNCHANGED <<discarded_short_blocks,
                                       discarded_long_blocks>>
    /\ bi' = bi + 1
    /\ UNCHANGED <<pc, cfg, raw_chats, min_tokens, max_tokens, num_short_blocks,
                   num_long_blocks, ci, chat_stats, chat_records,
                   training_blocks, closed_blocks>>

\* chat.valid_blocks = valid_blocks, and on to the next chat (lines 460-461,
\* 508).
FinishChat ==
    /\ pc = "validate"
    /\ ci <= Len(chats)
    /\ bi > Len(chats[ci].raw_blocks)
    /\ chats' = [chats EXCEPT ![ci].valid_blocks = valid_blocks]
    /\ valid_blocks' = <<>>
    /\ ci' = ci + 1
    /\ bi' = 1
    /\ UNCHANGED <<pc, cfg, raw_chats, min_tokens, max_tokens, num_short_blocks,
                   num_long_blocks, discarded_short_blocks,
                   discarded_long_blocks, discarded_blocks, chat_stats,
                   chat_records, training_blocks, closed_blocks, failed_blocks>>

\* The log line after the loop reads discarded_blocks (lines 510-513): an
\* UnboundLocalError when no block ever reached line 493.  Otherwise
\* 7) the statistics of the chats are calculated (line 519).
Aggregate ==
    /\ pc = "validate"
    /\ ci > Len(chats)
    /\ IF discarded_blocks = Unbound
       THEN pc' = "raised" /\ UNCHANGED chat_stats
       ELSE pc' = "export" /\ chat_stats' = CalculateChatStats(chats)
    /\ UNCHANGED <<cfg, raw_chats, chats, min_tokens, max_tokens,
                   num_short_blocks, num_long_blocks, discarded_short_blocks,
                   discarded_long_blocks, discarded_blocks, ci, bi,
                   valid_blocks, chat_records, training_blocks, closed_blocks,
                   failed_blocks>>

RECURSIVE Flatten(_)
Flatten(ss) == IF ss = <<>> THEN <<>> ELSE Head(ss) \o Flatten(Tail(ss))

\* 8) The processed chat records and the training blocks (lines 623-681);
\* the run then returns chat_stats.
Export ==
    /\ pc = "export"
    /\ chat_records' = [i \in 1..Len(chats) |-> ChatRecord(chats[i])]
    /\ training_blocks' =
          Flatten([i \in 1..Len(chats) |-> chats[i].valid_blocks])
    /\ pc' = "done"
    /\ UNCHANGED <<cfg, raw_chats, chats, min_tokens, max_tokens,
                   num_short_blocks, num_long_blocks, discarded_short_blocks,
                   discarded_long_blocks, discarded_blocks, ci, bi,
                   valid_blocks, chat_stats, closed_blocks, failed_blocks>>

Next ==
    \/ BuildChats
    \/ ChunkChats
    \/ MergeChats
    \/ \E built \in BOOLEAN : ValidateBlock(built)
    \/ FinishChat
    \/ Aggregate
    \/ Export

Spec == Init /\ [][Next]_vars

\* The runs in which every Block(messages=block) constructs.
NextConstructs ==
    \/ BuildChats
    \/ ChunkChats
    \/ MergeChats
    \/ ValidateBlock(TRUE)
    \/ FinishChat
    \/ Aggregate
    \/ Export

SpecConstructs == Init /\ [][NextConstructs]_vars

\* ============================================================== properties
\* The Blocks accepted so far: those of every chat's valid_blocks and those
\* of the list the validator is filling for the current chat.
Accepted ==
    {chats[i].valid_blocks[b] :
        <<i, b>> \in {p \in (1..Len(chats)) \X (1..MaxMsgs) :
                        p[2] <= Len(chats[p[1]].valid_blocks)}}
    \cup {valid_blocks[b] : b \in 1..Len(valid_blocks)}

Roles(block) == [i \in 1..Len(block) |-> block[i].role]

AfterMerge == pc \in {"validate", "raised", "export", "done"}

\* The blocks of the chats' raw_blocks: raw until the merge, merged turns after
\* it, trimmed once the validator has visited them.
ChatBlocks ==
    {chats[i].raw_blocks[b] :
        <<i, b>> \in {p \in (1..Len(chats)) \X (1..MaxMsgs) :
                        p[2] <= Len(chats[p[1]].raw_blocks)}}

\* C1: every accepted Block has role user on its first non-system turn and
\* role assistant on its last turn.
C1_UserFirstAssistantLast ==
    \A blk \in Accepted :
        LET m == blk.messages
            f == IF m # <<>> /\ m[1].role = "system" THEN 2 ELSE 1
        IN /\ Len(m) >= f
           /\ m[f].role = "user"
           /\ m[Len(m)].role = "assistant"

\* A chat of three one-token messages assistant, user, assistant sent at the
\* same second is one raw block; its leading assistant turn was trimmed and
\* the rest accepted.
C1_Witness ==
    \E i \in 1..Len(chats) :
        /\ Roles(chats[i].messages) = <<"assistant", "user", "assistant">>
        /\ \A k \in 1..3 : /\ chats[i].messages[k].timestamp = 0
                           /\ chats[i].messages[k].content[1].w = 1
        /\ ~cfg.system_prompt
        /\ Len(chats[i].valid_blocks) = 1
        /\ Roles(chats[i].valid_blocks[1].messages) = <<"user", "assistant">>

\* C2: the token counts of an accepted Block's turns, system turn included,
\* sum to a value in [min_tokens, max_tokens].
C2_TokenSumInBudget ==
    \A blk \in Accepted :
        /\ min_tokens <= TokenSum(blk.messages)
        /\ TokenSum(blk.messages) <= max_tokens

\* An accepted Block with a system turn whose token sum is exactly max_tokens.
C2_Witness ==
    /\ pc = "done"
    /\ \E blk \in Accepted :
        /\ blk.messages[1].role = "system"
        /\ TokenSum(blk.messages) = max_tokens

NoAdjacentSameRole(block) ==
    \A k \in 1..(Len(block) - 1) : block[k].role # block[k + 1].role

\* C4: the Turn Merger's output has no two adjacent turns with the same role,
\* and so no accepted Block has.
C4_NoAdjacentSameRole ==
    /\ AfterMerge => \A blk \in ChatBlocks : NoAdjacentSameRole(blk)
    /\ \A blk \in Accepted : NoAdjacentSameRole(blk.messages)

\* Right after the merge: a block of two turns, one of them merged from two
\* messages.
C4_Witness ==
    /\ pc = "validate" /\ ci = 1 /\ bi = 1
    /\ \E blk \in ChatBlocks :
        /\ Len(blk) = 2
        /\ \E k \in 1..2 : Len(blk[k].content) = 2

\* C5: the Segmenter run again on the messages of a raw block it kept, with
\* the same threshold and budgets, keeps exactly that block and discards none.
C5_SegmenterIdempotent ==
    pc = "merge" =>
        \A blk \in ChatBlocks :
            LET again == SegmentChat(blk, Threshold, min_tokens, max_tokens)
            IN again.kept = <<blk>> /\ again.short = 0 /\ again.long = 0

\* A kept raw block of two messages that is not the whole chat: the Segmenter
\* closed another block before or after it.
C5_Witness ==
    /\ pc = "merge"
    /\ \E i \in 1..Len(chats) :
        /\ Len(chats[i].messages) = 3
        /\ \E b \in 1..Len(chats[i].raw_blocks) :
              Len(chats[i].raw_blocks[b]) = 2

\* C6: every Chat passed to the Stats Aggregator and written to the output
\* has a non-empty valid_blocks.
C6_RetainedChatsHaveBlocks ==
    /\ pc \in {"export", "done"} =>
          \A i \in 1..Len(chats) : chats[i].valid_blocks # <<>>
    /\ pc = "done" =>
          \A i \in 1..Len(chat_records) : chat_records[i].num_blocks > 0

RawTokens(block) ==
    SumSeq([k \in 1..Len(block) |-> TokenCount(block[k].content)])

\* C7: min_tokens >= max_tokens configured: (100, 3000) is used by the
\* Segmenter and the Validator for the whole run, which does not fail on it;
\* otherwise the configured pair is used unchanged.
C7_ThresholdSanity ==
    LET lo == IF cfg.min >= cfg.max THEN DefaultMin ELSE cfg.min
        hi == IF cfg.min >= cfg.max THEN DefaultMax ELSE cfg.max
    IN /\ pc \notin {"build", "chunk"} => min_tokens = lo /\ max_tokens = hi
       /\ pc = "merge" =>
             \A blk \in ChatBlocks :
                 lo <= RawTokens(blk) /\ RawTokens(blk) <= hi
       /\ \A blk \in Accepted :
             lo <= TokenSum(blk.messages) /\ TokenSum(blk.messages) <= hi

\* Inverted thresholds configured, and a Block of at least 100 tokens accepted.
C7_Witness ==
    /\ cfg.min >= cfg.max
    /\ pc = "done"
    /\ \E blk \in Accepted : TokenSum(blk.messages) >= DefaultMin

RECURSIVE CountSkipped(_)
CountSkipped(raws) ==
    IF raws = <<>> THEN 0
    ELSE (IF Skipped(Head(raws)) THEN 1 ELSE 0) + CountSkipped(Tail(raws))

\* The messages of the input the normaliser skipped.
SkippedMessages ==
    SumSeq([i \in 1..Len(raw_chats) |-> CountSkipped(raw_chats[i])])

\* The numbers the returned statistics hold.
StatValues ==
    {chat_stats.num_chats, chat_stats.num_blocks,
     chat_stats.min_tokens_per_block, chat_stats.max_tokens_per_block}
    \cup {chat_stats.block_breakdown[n] : n \in DOMAIN chat_stats.block_breakdown}

\* C8: every discard count of the run (short and long blocks of the Segmenter
\* and of the Validator, skipped messages) appears in the statistics the run
\* returns.
C8_DiscardCountsInStats ==
    pc = "done" =>
        {num_short_blocks, num_long_blocks, discarded_short_blocks,
         discarded_long_blocks, SkippedMessages} \subseteq StatValues

\* C9: the validation stage never raises, whatever the Validator rejects, and
\* control reaches the Stats Aggregator.
C9_ValidationNeverRaises == pc # "raised"

\* C10: in an accepted Block the timestamps of the non-system turns are
\* non-decreasing, and only the system turn has a null timestamp.
C10_TimestampsNonDecreasing ==
    \A blk \in Accepted :
        LET m == blk.messages
        IN /\ \A k \in 1..Len(m) :
                (m[k].timestamp = NoTime) <=> (m[k].role = "system")
           /\ \A j, k \in 1..Len(m) :
                (j < k /\ m[j].role # "system") =>
                    m[j].timestamp <= m[k].timestamp

\* A Block accepted from a chat whose raw messages were not in chronological
\* order in the input file.
C10_Witness ==
    \E i \in 1..Len(chats) :
        LET raws == raw_chats[chats[i].contact_name]
        IN /\ chats[i].valid_blocks # <<>>
           /\ \E j, k \in 1..Len(raws) :
                j < k /\ ~Skipped(raws[j]) /\ ~Skipped(raws[k])
                /\ raws[j].date > raws[k].date

\* ------------------------------------------------- segmenter, step by step
Tok(msg) == TokenCount(msg.content)

\* C11: a message is appended to the current block iff it is not the chat's
\* first message, its gap to the previous message is <= the threshold and the
\* running token count plus its own is <= max_tokens (both inclusive); in
\* every other case it starts a new block.  So no block holds two consecutive
\* messages whose gap exceeds the threshold.
C11_ContinueIffGapAndBudget ==
    pc = "merge" =>
        \A c \in 1..Len(closed_blocks) :
            LET blocks == closed_blocks[c].closed
            IN /\ blocks # <<>> =>
                    blocks[1].messages[1] = closed_blocks[c].messages[1]
               /\ \A b \in 1..Len(blocks) :
                    LET m == blocks[b].messages
                    IN /\ \A k \in 2..Len(m) :
                            /\ m[k].timestamp - m[k - 1].timestamp <= Threshold
                            /\ RawTokens(SubSeq(m, 1, k - 1)) + Tok(m[k])
                                  <= max_tokens
                       /\ b > 1 =>
                            LET p == blocks[b - 1].messages
                            IN ~(/\ m[1].timestamp - p[Len(p)].timestamp
                                       <= Threshold
                                 /\ RawTokens(p) + Tok(m[1]) <= max_tokens)

\* A block of three messages closed with exactly max_tokens tokens and a gap
\* of exactly the threshold inside it.
C11_Witness ==
    /\ pc = "merge"
    /\ \E c \in 1..Len(closed_blocks) :
        \E b \in 1..Len(closed_blocks[c].closed) :
            LET m == closed_blocks[c].closed[b].messages
            IN /\ Len(m) = 3
               /\ RawTokens(m) = max_tokens
               /\ \E k \in 2..3 :
                     m[k].timestamp - m[k - 1].timestamp = Threshold

\* C15: a closed block of two or more messages has at most max_tokens tokens;
\* a block is counted too long only if it is one message of more than
\* max_tokens tokens, and every such message is closed alone and discarded.
C15_LongBlocksAreSingleOversized ==
    pc = "merge" =>
        \A c \in 1..Len(closed_blocks) :
            LET blocks == closed_blocks[c].closed
                msgs == closed_blocks[c].messages
            IN /\ \A b \in 1..Len(blocks) :
                    LET m == blocks[b].messages
                    IN /\ Len(m) >= 2 => RawTokens(m) <= max_tokens
                       /\ blocks[b].verdict = "long" =>
                            Len(m) = 1 /\ Tok(m[1]) > max_tokens
                       /\ \A k \in 1..Len(m) :
                            Tok(m[k]) > max_tokens =>
                                Len(m) = 1 /\ blocks[b].verdict = "long"
               /\ Cardinality({k \in 1..Len(msgs) : Tok(msgs[k]) > max_tokens})
                    = Cardinality({b \in 1..Len(blocks) :
                                     blocks[b].verdict = "long"})

\* A chat whose oversized message was closed alone as too long next to a
\* block of two messages.
C15_Witness ==
    /\ pc = "merge"
    /\ num_long_blocks = 1
    /\ \E c \in 1..Len(closed_blocks) :
        LET blocks == closed_blocks[c].closed
        IN \E a, b \in 1..Len(blocks) :
              /\ blocks[a].verdict = "long"
              /\ Len(blocks[b].messages) = 2

VerdictCount(v) ==
    SumSeq([c \in 1..Len(closed_blocks) |->
              Cardinality({b \in 1..Len(closed_blocks[c].closed) :
                             closed_blocks[c].closed[b].verdict = v})])

KeptOf(blocks) ==
    LET kept == SelectSeq(blocks, LAMBDA x : x.verdict = "kept")
    IN [b \in 1..Len(kept) |-> kept[b].messages]

\* C16: the blocks the Segmenter closes partition each chat's chronological
\* message sequence into non-empty contiguous runs in order; every closed
\* block is kept or counted once as short or long, so kept + short + long is
\* the number of closed blocks; the chat's message list is left unchanged.
C16_ClosedBlocksPartition ==
    pc = "merge" =>
        /\ \A c \in 1..Len(closed_blocks) :
            LET blocks == closed_blocks[c].closed
            IN /\ \A b \in 1..Len(blocks) : blocks[b].messages # <<>>
               /\ Flatten([b \in 1..Len(blocks) |-> blocks[b].messages])
                     = closed_blocks[c].messages
               /\ KeptOf(blocks) # <<>> =>
                     \E i \in 1..Len(chats) :
                        /\ chats[i].contact_name = closed_blocks[c].contact_name
                        /\ chats[i].messages = closed_blocks[c].messages
                        /\ chats[i].raw_blocks = KeptOf(blocks)
        /\ \A i \in 1..Len(chats) :
              \E c \in 1..Len(closed_blocks) :
                 chats[i].contact_name = closed_blocks[c].contact_name
        /\ num_short_blocks = VerdictCount("short")
        /\ num_long_blocks = VerdictCount("long")
        /\ SumSeq([i \in 1..Len(chats) |-> Len(chats[i].raw_blocks)])
              + num_short_blocks + num_long_blocks
              = SumSeq([c \in 1..Len(closed_blocks) |->
                          Len(closed_blocks[c].closed)])

\* A chat of three messages closed as a kept block of two and a short block
\* of one.
C16_Witness ==
    /\ pc = "merge"
    /\ \E c \in 1..Len(closed_blocks) :
        LET blocks == closed_blocks[c].closed
        IN /\ Len(closed_blocks[c].messages) = 3
           /\ Len(blocks) = 2
           /\ blocks[1].verdict = "kept" /\ Len(blocks[1].messages) = 2
           /\ blocks[2].verdict = "short"

\* ------------------------------------------------------ merger, validator
\* The merged turns M are the maximal same-role runs of the raw block R, in
\* order: each with the run's role, its first message's timestamp and its
\* messages' texts as delimiter-prefixed lines.
TurnsOfRuns(R, M) ==
    LET starts == {k \in 1..Len(R) : k = 1 \/ R[k].role # R[k - 1].role}
        StartOf(j) == CHOOSE k \in starts :
                         Cardinality({x \in starts : x <= k}) = j
        EndOf(j) == IF j = Cardinality(starts) THEN Len(R)
                    ELSE StartOf(j + 1) - 1
    IN /\ Len(M) = Cardinality(starts)
       /\ \A j \in 1..Len(M) :
            /\ M[j].role = R[StartOf(j)].role
            /\ M[j].timestamp = R[StartOf(j)].timestamp
            /\ M[j].content =
                  [x \in 1..(EndOf(j) - StartOf(j) + 1) |->
                     [pre |-> TRUE, w |-> R[StartOf(j) + x - 1].content[1].w]]
       /\ SumSeq([j \in 1..Len(M) |-> Len(M[j].content)]) = Len(R)

LeadingAssistants(R) ==
    CHOOSE a \in 0..Len(R) :
        /\ \A k \in 1..a : R[k].role = "assistant"
        /\ a = Len(R) \/ R[a + 1].role # "assistant"

\* The length of the maximal trailing run of user turns of R without its
\* first a turns.
TrailingUsers(R, a) ==
    CHOOSE u \in 0..(Len(R) - a) :
        /\ \A k \in (Len(R) - u + 1)..Len(R) : R[k].role = "user"
        /\ u = Len(R) - a \/ R[Len(R) - u].role # "user"

\* C13: the Validator removes exactly the maximal leading run of assistant
\* turns and then the maximal trailing run of user turns of what remains,
\* leaving the other turns unchanged and in order; a block trimmed to empty is
\* rejected and counted as a short discard, system prompt or not.
C13_TrimExactly ==
    [][(pc = "validate" /\ bi' = bi + 1 /\ chats[ci].raw_blocks[bi] # <<>>) =>
          LET R == chats[ci].raw_blocks[bi]
              N == chats'[ci].raw_blocks[bi]
              a == LeadingAssistants(R)
              u == TrailingUsers(R, a)
              core == IF cfg.system_prompt THEN Tail(N) ELSE N
          IN /\ cfg.system_prompt => N # <<>> /\ N[1] = SystemMessage
             /\ core = SubSeq(R, a + 1, Len(R) - u)
             /\ core = <<>> =>
                   /\ discarded_short_blocks' = discarded_short_blocks + 1
                   /\ discarded_long_blocks' = discarded_long_blocks
                   /\ valid_blocks' = valid_blocks]_vars

\* With a system prompt: the merged block [assistant, user] of a chat has been
\* trimmed to nothing but the system turn and counted as a short discard.
C13_Witness ==
    /\ pc = "validate" /\ ci = 1 /\ bi = 2
    /\ cfg.system_prompt
    /\ Roles(chats[1].messages) = <<"assistant", "user">>
    /\ chats[1].raw_blocks = << <<SystemMessage>> >>
    /\ discarded_short_blocks = 1
    /\ valid_blocks = <<>>

\* C14: the total of discarded blocks the validation pass reports is the
\* short discards plus the long discards plus the failed Block constructions,
\* over all blocks of all chats.
C14_TotalIsShortPlusLong ==
    pc \in {"export", "done"} =>
        discarded_blocks =
            discarded_short_blocks + discarded_long_blocks + failed_blocks

====
